---- MODULE Spec2Model ----
(***************************************************************************)
(* The concurrent batch-execution and retry layer of BaseMultiModalModel   *)
(* (src/swarms/models/base_multimodal_model.py): run_many, run_batch,      *)
(* run_batch_async, run_with_retries and run_batch_with_retries, each      *)
(* modelled as the caller's thread stepping through the method while the   *)
(* worker threads of the executor the method uses run the invocations.     *)
(*                                                                         *)
(* One behaviour is one call of one method on one object.  The object's    *)
(* fields (max_workers, retries), the machine's cpu count and the call's   *)
(* arguments are chosen in Init.  self.run is the collaborator a subclass  *)
(* supplies: every invocation either returns a value or raises.            *)
(***************************************************************************)
EXTENDS Integers, Sequences, FiniteSets

\* ------------------------------------------------------------- bounds

\* Longest argument list of run_many, run_batch and run_batch_async.
MaxN == 6
\* Longest batch given to run_batch_with_retries.
MaxRetryN == 2
\* Longest batch given to run_batch_async_with_retries.
MaxAsyncRetryN == 2
\* Largest self.max_workers an object is constructed with.
MaxWorkers == 2
\* Largest self.retries an object is constructed with.
MaxRetries == 3
\* Largest self.retries of an object run_batch_async_with_retries is called on.
MaxItemRetries == 2
\* Largest os.cpu_count() of the machine.
MaxCpu == 1

\* --------------------------------------------------- program constants

\* __init__'s default for max_workers.
DefaultMaxWorkers == 10
\* __init__'s default for retries.
DefaultRetries == 3

VARIABLES
    max_workers,   \* self.max_workers
    retries,       \* self.retries
    cpu_count,     \* os.cpu_count() of the machine the call runs on
    call,          \* the method the caller invoked
    args,          \* its arguments
    pc,            \* where the caller's thread is in the method
    pool_size,     \* max_workers of the executor in use (0: none yet)
    futures,       \* the futures submitted to it, in submission order
    results,       \* the list the caller has collected so far
    exc,           \* the exception in flight in the caller's thread
    outer,         \* run_batch_async: the future asyncio.gather returns
    attempt,       \* the retry helpers' loop variable i
    calls,         \* how many times self.run was entered, per pair
    history,       \* run_batch_with_retries: outcome of each run_batch attempt;
                   \* run_batch_async_with_retries: per pair, how each of its
                   \* self.run calls ended
    run_out,       \* run_with_retries: how the latest self.run call ended
    stdout,        \* what print() wrote
    ret            \* how the call ended

vars == <<max_workers, retries, cpu_count, call, args, pc, pool_size, futures,
          results, exc, outer, attempt, calls, history, run_out, stdout, ret>>

\* ------------------------------------------------------ Python values

PyNone == [ty |-> "NoneType", v |-> <<>>]
PyList(s) == [ty |-> "list", v |-> s]
\* The exception raised by the c-th invocation of pair i.
PyError(i, c) == [ty |-> "Exception", v |-> <<i, c>>]
\* The model's answer to one (task, img) pair.
Response(p) == [ty |-> "str", v |-> p]

NoExc == [ty |-> "none", v |-> <<>>]

Min(a, b) == IF a < b THEN a ELSE b

\* What one invocation self.run(task, img) of pair i can do: the base class's
\* body is `pass` (it returns None); a subclass's run returns its response or
\* raises.
RunOutcomes(i, c, p) ==
    { [st |-> "ok", val |-> PyNone],
      [st |-> "ok", val |-> Response(p)],
      [st |-> "err", val |-> PyError(i, c)] }

Pending == [st |-> "pending", val |-> PyNone]
Running == [st |-> "running", val |-> PyNone]

\* concurrent.futures.ThreadPoolExecutor() with no max_workers.
DefaultPoolSize == Min(32, cpu_count + 4)

\* ----------------------------------------------------------- arguments

\* The argument lists of length n the model draws from: n distinct entries,
\* and n entries that repeat with period two.
Lists(n) == { [i \in 1..n |-> i], [i \in 1..n |-> 1 + (i % 2)] }
PairLists(n) == { [i \in 1..n |-> <<l[i], l[i]>>] : l \in Lists(n) }

\* zip(tasks, imgs) stops at the shorter list.
Zip(ts, is) == [i \in 1..Min(Len(ts), Len(is)) |-> <<ts[i], is[i]>>]

\* The (task, img) pairs the call invokes self.run on, in submission order.
Pairs ==
    CASE call = "run_many" -> Zip(args.tasks, args.imgs)
      [] call = "run_with_retries" -> << <<args.task, args.img>> >>
      [] OTHER -> args.tasks_images

NumPairs == Len(Pairs)

\* ---------------------------------------------------------------- Init

InitCall ==
    /\ cpu_count \in 1..MaxCpu
    /\ pool_size = 0
    /\ futures = <<>>
    /\ results = <<>>
    /\ exc = NoExc
    /\ outer = [st |-> "pending", val |-> PyNone]
    /\ attempt = 0
    /\ calls = [i \in 1..NumPairs |-> 0]
    /\ history = IF call = "run_batch_async_with_retries"
                 THEN [i \in 1..NumPairs |-> <<>>] ELSE <<>>
    /\ run_out = Pending
    /\ stdout = <<>>
    /\ ret = [kind |-> "running", val |-> PyNone]

InitMany ==
    /\ max_workers \in 1..MaxWorkers
    /\ retries = DefaultRetries
    /\ call = "run_many"
    /\ \E n \in 0..MaxN, m \in 0..MaxN :
         args \in { [tasks |-> ts, imgs |-> is] : ts \in Lists(n), is \in {[i \in 1..m |-> i]} }
    /\ pc = "enter"
    /\ InitCall

InitBatch ==
    /\ max_workers \in 1..MaxWorkers
    /\ retries = DefaultRetries
    /\ call = "run_batch"
    /\ \E n \in 0..MaxN : args \in { [tasks_images |-> l] : l \in PairLists(n) }
    /\ pc = "enter"
    /\ InitCall

InitAsync ==
    /\ max_workers \in 1..MaxWorkers
    /\ retries = DefaultRetries
    /\ call = "run_batch_async"
    /\ \E n \in 0..MaxN : args \in { [tasks_images |-> l] : l \in PairLists(n) }
    /\ pc = "enter"
    /\ InitCall

InitRetry ==
    /\ max_workers = DefaultMaxWorkers
    /\ retries \in 0..MaxRetries
    /\ call = "run_with_retries"
    /\ args \in { [task |-> t, img |-> g] : t \in 1..2, g \in 1..2 }
    /\ pc = "loop"
    /\ InitCall

InitBatchRetry ==
    /\ max_workers = DefaultMaxWorkers
    /\ retries \in 0..MaxRetries
    /\ call = "run_batch_with_retries"
    /\ \E n \in 0..MaxRetryN : args \in { [tasks_images |-> l] : l \in PairLists(n) }
    /\ pc = "loop"
    /\ InitCall

InitAsyncRetry ==
    /\ max_workers = DefaultMaxWorkers
    /\ retries \in 0..MaxItemRetries
    /\ call = "run_batch_async_with_retries"
    /\ \E n \in 0..MaxAsyncRetryN : args \in { [tasks_images |-> l] : l \in PairLists(n) }
    /\ pc = "enter"
    /\ InitCall

Init == InitMany \/ InitBatch \/ InitAsync \/ InitRetry \/ InitBatchRetry
        \/ InitAsyncRetry

\* ------------------------------------------------------ the executor

IsDone(f) == f.st \in {"ok", "err"}
RunningSet == { i \in 1..Len(futures) : futures[i].st = "running" }
PendingSet == { i \in 1..Len(futures) : futures[i].st = "pending" }
\* The work items a worker thread is busy with: inside self.run, or between
\* two attempts of run_with_retries.
BusySet == { i \in 1..Len(futures) : futures[i].st \in {"running", "loop"} }
AllDone == \A i \in 1..Len(futures) : IsDone(futures[i])

\* executor.submit / loop.run_in_executor: one more work item on the queue.
SubmitNext ==
    /\ Len(futures) < NumPairs
    /\ futures' = Append(futures, Pending)

\* Mutant: a worker thread exits after its first work item instead of going
\* back to the queue, so only the first pool_size items are ever taken.
OneShotWorkers ==
    Cardinality({ i \in 1..Len(futures) : futures[i].st # "pending" }) < pool_size

\* The executor starts a thread for a submitted item only while it has fewer
\* than pool_size threads, and a thread that finishes an item goes back to
\* the queue: a work item can be taken while fewer than pool_size are running.
WorkerAvailable == Cardinality(BusySet) < pool_size

\* A worker thread takes the oldest queued work item and enters self.run.
WorkerStart ==
    /\ PendingSet # {}
    /\ WorkerAvailable
    /\ LET i == CHOOSE j \in PendingSet : \A k \in PendingSet : j <= k
       IN /\ futures' = [futures EXCEPT ![i] = Running]
          /\ calls' = [calls EXCEPT ![i] = @ + 1]
    /\ UNCHANGED <<max_workers, retries, cpu_count, call, args, pc, pool_size,
                   results, exc, outer, attempt, history, stdout, ret, run_out>>

\* Mutant: the results are appended as the futures complete
\* (first completed, first returned).
GatherAsCompleted(fs, i) ==
    IF outer.st # "pending" THEN outer
    ELSE IF fs[i].st = "err" THEN [st |-> "err", val |-> fs[i].val]
    ELSE LET sofar == IF outer.val.ty = "list" THEN outer.val.v ELSE <<>>
             now == Append(sofar, fs[i].val)
         IN [st |-> IF Len(now) = NumPairs THEN "ok" ELSE "pending",
             val |-> PyList(now)]

\* asyncio.gather's callback on the completion of future i: the first
\* exception completes the outer future; the last result completes it
\* with the list of results, in the order the futures were given.  The event
\* loop runs the callbacks in the order the futures completed, so the outer
\* future's outcome is decided as each future completes.
GatherDone(fs, i) ==
    IF outer.st # "pending" THEN outer
    ELSE IF fs[i].st = "err" THEN [st |-> "err", val |-> fs[i].val]
    ELSE IF Len(fs) = NumPairs /\ \A j \in 1..Len(fs) : fs[j].st = "ok"
         THEN [st |-> "ok", val |-> PyList([j \in 1..Len(fs) |-> fs[j].val])]
    ELSE outer

\* self.run returns or raises in a worker thread: the future is done.
WorkerFinish ==
    /\ \E i \in RunningSet :
         \E o \in RunOutcomes(i, calls[i], Pairs[i]) :
            /\ futures' = [futures EXCEPT ![i] = o]
            /\ outer' = IF call = "run_batch_async"
                        THEN GatherDone(futures', i) ELSE outer
    /\ UNCHANGED <<max_workers, retries, cpu_count, call, args, pc, pool_size,
                   results, exc, attempt, calls, history, stdout, ret, run_out>>

\* ------------------------------------------------------------ run_many

\* Mutant: run_many constructs its executor without max_workers.
ManyPoolSizeDefault == DefaultPoolSize

\* The size of the executor run_many constructs.
ManyPoolSize == max_workers

\* with ThreadPoolExecutor(max_workers=self.max_workers) as executor:
RunManyEnter ==
    /\ call = "run_many" /\ pc = "enter"
    /\ pool_size' = ManyPoolSize
    /\ pc' = "submit"
    /\ UNCHANGED <<max_workers, retries, cpu_count, call, args, futures,
                   results, exc, outer, attempt, calls, history, stdout, ret, run_out>>

\* executor.map(self.run, tasks, imgs) submits every zipped pair at once.
RunManyMap ==
    /\ call = "run_many" /\ pc = "submit"
    /\ SubmitNext
    /\ UNCHANGED <<max_workers, retries, cpu_count, call, args, pc, pool_size,
                   results, exc, outer, attempt, calls, history, stdout, ret, run_out>>

\* The with block ends: shutdown(wait=True) returns once every future is done.
RunManyShutdown ==
    /\ call = "run_many" /\ pc = "submit"
    /\ Len(futures) = NumPairs
    /\ AllDone
    /\ pc' = "iterate"
    /\ UNCHANGED <<max_workers, retries, cpu_count, call, args, pool_size, futures,
                   results, exc, outer, attempt, calls, history, stdout, ret, run_out>>

\* for result in results: print(result) -- the iterator yields the futures'
\* results in submission order and raises the first one's exception; the
\* method returns None (it has no return statement).
RunManyIterate ==
    /\ call = "run_many" /\ pc = "iterate"
    /\ LET k == Len(stdout) + 1 IN
       \/ /\ k <= NumPairs /\ futures[k].st = "ok"
          /\ stdout' = Append(stdout, futures[k].val)
          /\ UNCHANGED <<pc, ret>>
       \/ /\ k <= NumPairs /\ futures[k].st = "err"
          /\ ret' = [kind |-> "raise", val |-> futures[k].val]
          /\ pc' = "done"
          /\ UNCHANGED stdout
       \/ /\ k > NumPairs
          /\ ret' = [kind |-> "return", val |-> PyNone]
          /\ pc' = "done"
          /\ UNCHANGED stdout
    /\ UNCHANGED <<max_workers, retries, cpu_count, call, args, pool_size, futures,
                   results, exc, outer, attempt, calls, history, run_out>>

NextMany == RunManyEnter \/ RunManyMap \/ RunManyShutdown \/ RunManyIterate
            \/ WorkerStart \/ WorkerFinish

\* ----------------------------------------------------------- run_batch

InBatch == call \in {"run_batch", "run_batch_with_retries"}

\* The size of the executor run_batch constructs: ThreadPoolExecutor().
BatchPoolSize == DefaultPoolSize

\* with concurrent.futures.ThreadPoolExecutor() as executor:
RunBatchEnter ==
    /\ InBatch /\ pc = "enter"
    /\ pool_size' = BatchPoolSize
    /\ futures' = <<>>
    /\ results' = <<>>
    /\ pc' = "submit"
    /\ UNCHANGED <<max_workers, retries, cpu_count, call, args,
                   exc, outer, attempt, calls, history, stdout, ret, run_out>>

\* futures = [executor.submit(self.run, task, img) for task, img in ...]
RunBatchSubmit ==
    /\ InBatch /\ pc = "submit"
    /\ SubmitNext
    /\ UNCHANGED <<max_workers, retries, cpu_count, call, args, pc, pool_size,
                   results, exc, outer, attempt, calls, history, stdout, ret, run_out>>

\* Mutant: the futures are taken off the end of the list (futures.pop()).
CollectIndexPop(k) == NumPairs + 1 - k

\* The future whose result the k-th step of the collection waits for.
CollectIndex(k) == k

\* results = [future.result() for future in futures]: each result() blocks
\* until that future is done, then yields its value or raises its exception.
RunBatchCollect ==
    /\ InBatch /\ pc = "submit"
    /\ Len(futures) = NumPairs
    /\ LET k == Len(results) + 1 IN
       \/ /\ k <= NumPairs /\ futures[CollectIndex(k)].st = "ok"
          /\ results' = Append(results, futures[CollectIndex(k)].val)
          /\ UNCHANGED <<pc, exc>>
       \/ /\ k <= NumPairs /\ futures[CollectIndex(k)].st = "err"
          /\ exc' = futures[CollectIndex(k)].val
          /\ pc' = "exit"
          /\ UNCHANGED results
       \/ /\ k > NumPairs
          /\ pc' = "exit"
          /\ UNCHANGED <<results, exc>>
    /\ UNCHANGED <<max_workers, retries, cpu_count, call, args, pool_size, futures,
                   outer, attempt, calls, history, stdout, ret, run_out>>

\* Mutant: the executor is shut down without waiting (shutdown(wait=False)).
ExecutorNotJoined == TRUE

\* The with block ends, normally or by the exception in flight:
\* shutdown(wait=True) returns once every future is done.
ExecutorJoined == AllDone

\* Mutant: `return results or None` -- an empty list is returned as None.
BatchReturnOrNone == IF results = <<>> THEN PyNone ELSE PyList(results)

\* return results
BatchReturnValue == PyList(results)

\* return results, or the exception leaves run_batch.
RunBatchExit ==
    /\ InBatch /\ pc = "exit"
    /\ ExecutorJoined
    /\ IF call = "run_batch"
       THEN /\ ret' = IF exc = NoExc
                      THEN [kind |-> "return", val |-> BatchReturnValue]
                      ELSE [kind |-> "raise", val |-> exc]
            /\ pc' = "done"
       ELSE /\ pc' = "returned"
            /\ UNCHANGED ret
    /\ UNCHANGED <<max_workers, retries, cpu_count, call, args, pool_size, futures,
                   results, exc, outer, attempt, calls, history, stdout, run_out>>

NextBatch == RunBatchEnter \/ RunBatchSubmit \/ RunBatchCollect \/ RunBatchExit
             \/ WorkerStart \/ WorkerFinish

\* ----------------------------------------------------- run_batch_async

\* The size of the event loop's default executor (run_in_executor(None, ...)).
AsyncPoolSize == DefaultPoolSize

\* loop = asyncio.get_event_loop()
RunBatchAsyncEnter ==
    /\ call = "run_batch_async" /\ pc = "enter"
    /\ pool_size' = AsyncPoolSize
    /\ pc' = "submit"
    /\ UNCHANGED <<max_workers, retries, cpu_count, call, args, futures,
                   results, exc, outer, attempt, calls, history, stdout, ret, run_out>>

\* futures = [loop.run_in_executor(None, self.run, task, img) for ...]
RunBatchAsyncSubmit ==
    /\ call = "run_batch_async" /\ pc = "submit"
    /\ SubmitNext
    /\ UNCHANGED <<max_workers, retries, cpu_count, call, args, pc, pool_size,
                   results, exc, outer, attempt, calls, history, stdout, ret, run_out>>

\* return await asyncio.gather(*futures): the coroutine resumes when the outer
\* future is done (at once for no futures) with its list or its exception.
RunBatchAsyncAwait ==
    /\ call = "run_batch_async" /\ pc = "submit"
    /\ Len(futures) = NumPairs
    /\ \/ /\ NumPairs = 0
          /\ ret' = [kind |-> "return", val |-> PyList(<<>>)]
       \/ /\ outer.st = "ok"
          /\ ret' = [kind |-> "return", val |-> outer.val]
       \/ /\ outer.st = "err"
          /\ ret' = [kind |-> "raise", val |-> outer.val]
    /\ pc' = "done"
    /\ UNCHANGED <<max_workers, retries, cpu_count, call, args, pool_size, futures,
                   results, exc, outer, attempt, calls, history, stdout, run_out>>

NextAsync == RunBatchAsyncEnter \/ RunBatchAsyncSubmit \/ RunBatchAsyncAwait
             \/ WorkerStart \/ WorkerFinish

\* ------------------------------------------------------ run_with_retries

\* Mutants: range(self.retries + 1) and range(self.retries - 1).
RetryRangeOneMore == retries + 1
RetryRangeOneLess == IF retries > 1 THEN retries - 1 ELSE 0

\* for i in range(self.retries): the number of iterations.
RetryRange == IF retries > 0 THEN retries ELSE 0

\* What a retry helper returns when its loop ends without a return statement
\* having run: the function falls off its end.
FallThrough == PyNone

\* Mutant: the helper re-raises the last attempt's error after its loop
\* (`raise error` once the budget is spent).
ExhaustedReraise ==
    IF stdout = <<>> THEN [kind |-> "return", val |-> FallThrough]
    ELSE [kind |-> "raise", val |-> stdout[Len(stdout)]]

\* How a retry helper ends once its loop is exhausted: every error was caught
\* by `except Exception` and the function returns.
ExhaustedResult == [kind |-> "return", val |-> FallThrough]

\* The loop has another iteration: try: ... self.run(task, img)
RetryCall ==
    /\ call = "run_with_retries" /\ pc = "loop"
    /\ attempt < RetryRange
    /\ calls' = [calls EXCEPT ![1] = @ + 1]
    /\ pc' = "running"
    /\ UNCHANGED <<max_workers, retries, cpu_count, call, args, pool_size, futures,
                   results, exc, outer, attempt, history, stdout, ret, run_out>>

\* self.run returns or raises in the caller's thread.
RetryRun ==
    /\ call = "run_with_retries" /\ pc = "running"
    /\ run_out' \in RunOutcomes(1, calls[1], Pairs[1])
    /\ pc' = "ran"
    /\ UNCHANGED <<max_workers, retries, cpu_count, call, args, pool_size, futures,
                   results, exc, outer, attempt, calls, history, stdout, ret>>

\* return self.run(task, img)
RetryReturn ==
    /\ call = "run_with_retries" /\ pc = "ran"
    /\ run_out.st = "ok"
    /\ ret' = [kind |-> "return", val |-> run_out.val]
    /\ pc' = "done"
    /\ UNCHANGED <<max_workers, retries, cpu_count, call, args, pool_size, futures,
                   results, exc, outer, attempt, calls, history, run_out, stdout>>

\* except Exception as error: print(...); continue
RetryExcept ==
    /\ call = "run_with_retries" /\ pc = "ran"
    /\ run_out.st = "err"
    /\ stdout' = Append(stdout, run_out.val)
    /\ attempt' = attempt + 1
    /\ pc' = "loop"
    /\ UNCHANGED <<max_workers, retries, cpu_count, call, args, pool_size, futures,
                   results, exc, outer, calls, history, run_out, ret>>

\* The loop is exhausted and the function ends without a return statement.
RetryExhausted ==
    /\ call = "run_with_retries" /\ pc = "loop"
    /\ attempt >= RetryRange
    /\ ret' = ExhaustedResult
    /\ pc' = "done"
    /\ UNCHANGED <<max_workers, retries, cpu_count, call, args, pool_size, futures,
                   results, exc, outer, attempt, calls, history, stdout, run_out>>

NextRetry == RetryCall \/ RetryRun \/ RetryReturn \/ RetryExcept \/ RetryExhausted

\* ------------------------------------------------ run_batch_with_retries

\* The loop has another iteration: try: ... self.run_batch(tasks_images)
BatchRetryCall ==
    /\ call = "run_batch_with_retries" /\ pc = "loop"
    /\ attempt < RetryRange
    /\ pc' = "enter"
    /\ UNCHANGED <<max_workers, retries, cpu_count, call, args, pool_size, futures,
                   results, exc, outer, attempt, calls, history, stdout, ret, run_out>>

\* return self.run_batch(tasks_images)
BatchRetryReturn ==
    /\ call = "run_batch_with_retries" /\ pc = "returned"
    /\ exc = NoExc
    /\ history' = Append(history, "returned")
    /\ ret' = [kind |-> "return", val |-> PyList(results)]
    /\ pc' = "done"
    /\ UNCHANGED <<max_workers, retries, cpu_count, call, args, pool_size, futures,
                   results, exc, outer, attempt, calls, stdout, run_out>>

\* except Exception as error: print(...); continue
BatchRetryExcept ==
    /\ call = "run_batch_with_retries" /\ pc = "returned"
    /\ exc # NoExc
    /\ history' = Append(history, "raised")
    /\ stdout' = Append(stdout, exc)
    /\ exc' = NoExc
    /\ attempt' = attempt + 1
    /\ pc' = "loop"
    /\ UNCHANGED <<max_workers, retries, cpu_count, call, args, pool_size, futures,
                   results, outer, calls, ret, run_out>>

\* The loop is exhausted and the function ends without a return statement.
BatchRetryExhausted ==
    /\ call = "run_batch_with_retries" /\ pc = "loop"
    /\ attempt >= RetryRange
    /\ ret' = ExhaustedResult
    /\ pc' = "done"
    /\ UNCHANGED <<max_workers, retries, cpu_count, call, args, pool_size, futures,
                   results, exc, outer, attempt, calls, history, stdout, run_out>>

NextBatchRetry == BatchRetryCall \/ BatchRetryReturn \/ BatchRetryExcept
                  \/ BatchRetryExhausted \/ NextBatch

\* ----------------------------------------- run_batch_async_with_retries

InAsyncRetry == call = "run_batch_async_with_retries"

\* loop = asyncio.get_event_loop()
AsyncRetryEnter ==
    /\ InAsyncRetry /\ pc = "enter"
    /\ pool_size' = AsyncPoolSize
    /\ pc' = "submit"
    /\ UNCHANGED <<max_workers, retries, cpu_count, call, args, futures,
                   results, exc, outer, attempt, calls, history, stdout, ret, run_out>>

\* futures = [loop.run_in_executor(None, self.run_with_retries, task, img) ...]
AsyncRetrySubmit ==
    /\ InAsyncRetry /\ pc = "submit"
    /\ SubmitNext
    /\ UNCHANGED <<max_workers, retries, cpu_count, call, args, pc, pool_size,
                   results, exc, outer, attempt, calls, history, stdout, ret, run_out>>

\* A worker thread takes the oldest queued work item and enters
\* run_with_retries(task, img).
ItemStart ==
    /\ InAsyncRetry
    /\ PendingSet # {}
    /\ WorkerAvailable
    /\ LET i == CHOOSE j \in PendingSet : \A k \in PendingSet : j <= k
       IN futures' = [futures EXCEPT ![i] = [st |-> "loop", val |-> PyNone]]
    /\ UNCHANGED <<max_workers, retries, cpu_count, call, args, pc, pool_size,
                   results, exc, outer, attempt, calls, history, stdout, ret, run_out>>

\* Mutant: the attempts are counted in a field all the work items share.
SharedAttempts(i) == Len(stdout)

\* The loop variable i of item i's run_with_retries: the attempts of this
\* item that have failed.
ItemAttempts(i) == Len(history[i])

\* Item i's loop has another iteration: try: ... self.run(task, img)
ItemCall ==
    /\ InAsyncRetry
    /\ \E i \in 1..Len(futures) :
         /\ futures[i].st = "loop"
         /\ ItemAttempts(i) < RetryRange
         /\ futures' = [futures EXCEPT ![i] = Running]
         /\ calls' = [calls EXCEPT ![i] = @ + 1]
    /\ UNCHANGED <<max_workers, retries, cpu_count, call, args, pc, pool_size,
                   results, exc, outer, attempt, history, stdout, ret, run_out>>

\* Item i's self.run returns, and run_with_retries returns its value: the
\* future is done.
ItemReturn ==
    /\ InAsyncRetry
    /\ \E i \in RunningSet :
         \E o \in RunOutcomes(i, calls[i], Pairs[i]) :
            /\ o.st = "ok"
            /\ history' = [history EXCEPT ![i] = Append(@, o)]
            /\ futures' = [futures EXCEPT ![i] = o]
            /\ outer' = GatherDone(futures', i)
    /\ UNCHANGED <<max_workers, retries, cpu_count, call, args, pc, pool_size,
                   results, exc, attempt, calls, stdout, ret, run_out>>

\* Item i's self.run raises: except Exception as error: print(...); continue
ItemExcept ==
    /\ InAsyncRetry
    /\ \E i \in RunningSet :
         \E o \in RunOutcomes(i, calls[i], Pairs[i]) :
            /\ o.st = "err"
            /\ history' = [history EXCEPT ![i] = Append(@, o)]
            /\ stdout' = Append(stdout, o.val)
            /\ futures' = [futures EXCEPT ![i] = [st |-> "loop", val |-> PyNone]]
    /\ UNCHANGED <<max_workers, retries, cpu_count, call, args, pc, pool_size,
                   results, exc, outer, attempt, calls, ret, run_out>>

\* Item i's loop is exhausted: run_with_retries ends without a return
\* statement and the future is done with that value.
ItemExhausted ==
    /\ InAsyncRetry
    /\ \E i \in 1..Len(futures) :
         /\ futures[i].st = "loop"
         /\ ItemAttempts(i) >= RetryRange
         /\ futures' = [futures EXCEPT ![i] = [st |-> "ok", val |-> ExhaustedResult.val]]
         /\ outer' = GatherDone(futures', i)
    /\ UNCHANGED <<max_workers, retries, cpu_count, call, args, pc, pool_size,
                   results, exc, attempt, calls, history, stdout, ret, run_out>>

\* return await asyncio.gather(*futures)
AsyncRetryAwait ==
    /\ InAsyncRetry /\ pc = "submit"
    /\ Len(futures) = NumPairs
    /\ NumPairs = 0 \/ outer.st # "pending"
    /\ ret' = IF NumPairs = 0 THEN [kind |-> "return", val |-> PyList(<<>>)]
              ELSE IF outer.st = "ok" THEN [kind |-> "return", val |-> outer.val]
              ELSE [kind |-> "raise", val |-> outer.val]
    /\ pc' = "done"
    /\ UNCHANGED <<max_workers, retries, cpu_count, call, args, pool_size, futures,
                   results, exc, outer, attempt, calls, history, stdout, run_out>>

NextAsyncRetry == AsyncRetryEnter \/ AsyncRetrySubmit \/ AsyncRetryAwait
                  \/ ItemStart \/ ItemCall \/ ItemReturn \/ ItemExcept
                  \/ ItemExhausted

\* ------------------------------------------------------ specifications

Next == NextMany \/ NextBatch \/ NextAsync \/ NextRetry \/ NextBatchRetry
        \/ NextAsyncRetry

\* One call of any of the six methods.
Spec == Init /\ [][Next]_vars
\* One call of run_many.
SpecMany == InitMany /\ [][NextMany]_vars
\* One call of run_batch.
SpecBatch == InitBatch /\ [][NextBatch]_vars
\* One call of run_batch_async.
SpecAsync == InitAsync /\ [][NextAsync]_vars
\* One call of run_with_retries.
SpecRetry == InitRetry /\ [][NextRetry]_vars
\* One call of run_batch_with_retries.
SpecBatchRetry == InitBatchRetry /\ [][NextBatchRetry]_vars
\* One call of run_batch_async_with_retries.
SpecAsyncRetry == InitAsyncRetry /\ [][NextAsyncRetry]_vars
\* One call of either retry helper.
InitRetryHelpers == InitRetry \/ InitBatchRetry
NextRetryHelpers == NextRetry \/ NextBatchRetry
SpecRetryHelpers == InitRetryHelpers /\ [][NextRetryHelpers]_vars

\* run_batch on an object with the largest max_workers, a field run_batch
\* never reads.
InitBatchFair == InitBatch /\ max_workers = MaxWorkers

\* One call of run_batch on such an object, under the scheduling the claim of termination
\* assumes: the caller's thread keeps running, the pool hands a queued item to
\* a free worker, and every invocation that was entered ends.
FairSpecBatch ==
    /\ InitBatchFair /\ [][NextBatch]_vars
    /\ WF_vars(RunBatchEnter) /\ WF_vars(RunBatchSubmit)
    /\ WF_vars(RunBatchCollect) /\ WF_vars(RunBatchExit)
    /\ WF_vars(WorkerStart) /\ WF_vars(WorkerFinish)

\* -------------------------------------------------------------- claims

Done == pc = "done"
FailedSet == { i \in 1..Len(futures) : futures[i].st = "err" }
AllOk == Len(futures) = NumPairs /\ \A i \in 1..NumPairs : futures[i].st = "ok"
\* ret is the list whose position i holds what the invocation of pair i returned.
ReturnsAligned ==
    /\ ret.kind = "return"
    /\ ret.val.ty = "list"
    /\ Len(ret.val.v) = NumPairs
    /\ \A i \in 1..NumPairs : ret.val.v[i] = futures[i].val

\* C1: when every invocation of a run_batch call succeeds, the call returns a
\* list of exactly N results whose position i holds the result of the
\* invocation of pair i, for every interleaving of the workers.
C1_RunBatchIndexAligned ==
    (call = "run_batch" /\ Done /\ AllOk) => ReturnsAligned

C1_Witness ==
    /\ call = "run_batch" /\ Done /\ AllOk
    /\ NumPairs >= 3
    /\ ret.val.v[1] # ret.val.v[2] /\ ret.val.v[2] # ret.val.v[3]

\* C2: when one or more invocations of a run_batch call raise, the call
\* returns no list and raises the error of the lowest-index failing pair.
C2_RunBatchFailFast ==
    (call = "run_batch" /\ Done /\ FailedSet # {}) =>
        /\ ret.kind = "raise"
        /\ \E m \in FailedSet :
             /\ \A j \in FailedSet : m <= j
             /\ ret.val = futures[m].val

C2_Witness ==
    /\ call = "run_batch" /\ Done
    /\ Cardinality(FailedSet) >= 2
    /\ 1 \notin FailedSet
    /\ ret.kind = "raise"

\* C3: run_with_retries enters self.run at most self.retries times; when the
\* first k calls fail and the next succeeds, k < self.retries, self.run was
\* entered exactly k + 1 times and the successful call's value is returned.
C3_RetryCallCount ==
    call = "run_with_retries" =>
        /\ calls[1] <= retries
        /\ (Done /\ attempt < retries) =>
              /\ calls[1] = attempt + 1
              /\ run_out.st = "ok"
              /\ ret.kind = "return"
              /\ ret.val = run_out.val

C3_Witness ==
    /\ call = "run_with_retries" /\ Done
    /\ retries = 3 /\ attempt = 2 /\ calls[1] = 3
    /\ ret.val.ty = "str"

\* The values a successful call of the helper can return.
SuccessValues == { o.val : o \in { x \in RunOutcomes(1, 1, Pairs[1]) : x.st = "ok" } }

\* C4: when every attempt of run_with_retries fails, the helper ends with a
\* failure marker (a raised error or a returned value no successful call can
\* return), never with a value a successful call returns too.
C4_ExhaustionIsMarked ==
    (call = "run_with_retries" /\ Done /\ retries >= 1 /\ attempt >= retries) =>
        \/ ret.kind = "raise"
        \/ ret.val \notin SuccessValues

\* C5: run_batch_with_retries with self.retries = 3 whose first two run_batch
\* attempts raise makes exactly three attempts, each invoking every pair once,
\* and when the third succeeds it returns that attempt's results in input order.
C5_BatchRetryThirdAttempt ==
    (/\ call = "run_batch_with_retries" /\ Done /\ retries = 3
     /\ Len(history) >= 2 /\ history[1] = "raised" /\ history[2] = "raised") =>
        /\ Len(history) = 3
        /\ \A i \in 1..NumPairs : calls[i] = 3
        /\ AllOk => (history[3] = "returned" /\ ReturnsAligned)

C5_Witness ==
    /\ call = "run_batch_with_retries" /\ Done /\ retries = 3
    /\ history = <<"raised", "raised", "returned">>
    /\ NumPairs = 2
    /\ ret.val.ty = "list" /\ Len(ret.val.v) = 2

\* C6: in run_many the number of invocations running at the same time is at
\* most self.max_workers in every reachable state.
C6_RunManyBounded ==
    call = "run_many" => Cardinality(RunningSet) <= max_workers

C6_Witness ==
    /\ call = "run_many" /\ max_workers = 2
    /\ Len(futures) = 5
    /\ Cardinality(RunningSet) = 2 /\ Cardinality(PendingSet) = 3

\* C7: in run_batch the number of invocations of the batch running at the
\* same time is at most self.max_workers.
C7_RunBatchBounded ==
    call = "run_batch" => Cardinality(RunningSet) <= max_workers

\* C8: run_many given task and image lists of different lengths invokes
\* self.run for no pair and ends with a ShapeMismatchError.
C8_RunManyShapeChecked ==
    (call = "run_many" /\ Len(args.tasks) # Len(args.imgs)) =>
        /\ \A i \in 1..NumPairs : calls[i] = 0
        /\ Done => (ret.kind = "raise" /\ ret.val.ty = "ShapeMismatchError")

\* C9: when every invocation of a run_batch_async call succeeds, the awaited
\* result is the list of N results in input order, whatever the order in
\* which the workers completed.
C9_AsyncIndexAligned ==
    (call = "run_batch_async" /\ Done /\ AllOk) => ReturnsAligned

C9_Witness ==
    /\ call = "run_batch_async" /\ Done /\ AllOk
    /\ NumPairs >= 3
    /\ ret.kind = "return"
    /\ ret.val.v[1] # ret.val.v[2] /\ ret.val.v[2] # ret.val.v[3]

\* C10: under fair scheduling every invocation of a run_batch call is
\* eventually entered and the call eventually returns or raises, also when
\* there are more pairs than pool threads.
C10_RunBatchTerminates ==
    <>(/\ Done
       /\ ret.kind \in {"return", "raise"}
       /\ \A i \in 1..NumPairs : calls[i] = 1)

C10_Witness ==
    /\ call = "run_batch" /\ Done
    /\ pool_size > 0 /\ NumPairs > pool_size
    /\ \A i \in 1..NumPairs : calls[i] = 1

\* C11: run_batch on an empty list of pairs submits nothing, never raises and
\* returns the empty list.
C11_RunBatchEmpty ==
    (call = "run_batch" /\ NumPairs = 0) =>
        /\ futures = <<>>
        /\ ret.kind # "raise"
        /\ Done => (/\ ret.kind = "return"
                    /\ ret.val.ty = "list"
                    /\ ret.val.v = <<>>)

C11_Witness ==
    /\ call = "run_batch" /\ args.tasks_images = <<>>
    /\ Done /\ ret.kind = "return"

\* The pure functions of a pair the model's outcomes of self.run contain: the
\* subclass's response to the pair, and the base class's constant None.
PureFns == {"response", "none"}
ApplyPure(f, p) == IF f = "response" THEN Response(p) ELSE PyNone

\* The sequential map of f over the pairs, first pair first.
RECURSIVE SeqMap(_, _)
SeqMap(f, ps) ==
    IF ps = <<>> THEN <<>>
    ELSE <<ApplyPure(f, Head(ps))>> \o SeqMap(f, Tail(ps))

\* Every invocation of the call returned f of its pair.
BehavesAs(f) ==
    /\ Len(futures) = NumPairs
    /\ \A i \in 1..NumPairs :
         futures[i].st = "ok" /\ futures[i].val = ApplyPure(f, Pairs[i])

\* C12: when self.run behaves as a pure function f of (task, img), run_batch
\* returns the sequential map of f over the pairs, whatever the interleaving.
C12_RunBatchIsMap ==
    \A f \in PureFns :
        (call = "run_batch" /\ Done /\ BehavesAs(f)) =>
            /\ ret.kind = "return"
            /\ ret.val.ty = "list"
            /\ ret.val.v = SeqMap(f, Pairs)

C12_Witness ==
    /\ call = "run_batch" /\ Done /\ BehavesAs("response")
    /\ NumPairs >= 3
    /\ Pairs[1] # Pairs[2] /\ Pairs[1] # Pairs[3]
    /\ ret.kind = "return"

\* The state of the invocation run_with_retries processes: Pending until
\* self.run is first entered, Running inside self.run, then Succeeded or
\* Failed by how the latest self.run ended.
InvState ==
    CASE pc = "running" -> "Running"
      [] pc = "loop" /\ calls[1] = 0 -> "Pending"
      [] run_out.st = "ok" -> "Succeeded"
      [] OTHER -> "Failed"

\* Attempts of the retry budget not yet used.
BudgetLeft == retries - calls[1]

\* C13: every step of run_with_retries follows Pending -> Running ->
\* {Succeeded, Failed}; Failed goes back to Running only while budget is left;
\* after Succeeded, and after Failed with no budget left, self.run is never
\* entered again and the state never changes.
C13_Step ==
    LET s == InvState
        t == InvState'
    IN /\ s = "Pending" => \/ t = "Pending"
                           \/ t = "Running" /\ BudgetLeft > 0
                           \/ t = "Failed" /\ BudgetLeft = 0 /\ Done'
       /\ s = "Running" => t \in {"Running", "Succeeded", "Failed"}
       /\ s = "Failed" => \/ t = "Failed"
                          \/ t = "Running" /\ BudgetLeft > 0
       /\ s = "Succeeded" => t = "Succeeded"
       /\ (s = "Succeeded" \/ (s = "Failed" /\ BudgetLeft <= 0)) => calls' = calls
       /\ t = "Running" /\ s # "Running" => calls'[1] = calls[1] + 1
       /\ Done => (Done' /\ ret' = ret)

C13_RetryStateMachine == [][call = "run_with_retries" => C13_Step]_vars

C13_Witness ==
    /\ call = "run_with_retries" /\ Done
    /\ retries = 3 /\ calls[1] = 3
    /\ InvState = "Failed"

RetryHelper == call \in {"run_with_retries", "run_batch_with_retries"}

\* C14: the retry helpers catch the error of every failed attempt, the last
\* one included: each is printed, none is in flight once the helper has ended
\* and the helper never ends by raising.
C14_RetrySuppresses ==
    RetryHelper =>
        /\ ret.kind # "raise"
        /\ Len(stdout) = attempt
        /\ Done => (ret.kind = "return" /\ exc = NoExc)

C14_Witness ==
    /\ call = "run_batch_with_retries" /\ Done
    /\ retries >= 2 /\ attempt = retries
    /\ FailedSet # {}
    /\ ret.kind = "return"

\* C15: in one run_batch call no pair is invoked twice, and by the time the
\* call returns or raises every submitted pair has been invoked exactly once
\* and no invocation is pending or running, whether or not a pair failed.
C15_RunBatchDrains ==
    call = "run_batch" =>
        /\ \A i \in 1..NumPairs : calls[i] <= 1
        /\ ret.kind # "running" =>
              /\ Len(futures) = NumPairs
              /\ PendingSet = {} /\ RunningSet = {}
              /\ \A i \in 1..NumPairs : calls[i] = 1

C15_Witness ==
    /\ call = "run_batch" /\ ret.kind = "raise"
    /\ NumPairs > pool_size
    /\ futures[1].st = "err"
    /\ \A i \in 2..NumPairs : futures[i].st = "ok" /\ calls[i] = 1

\* The run_batch attempts begun so far by run_batch_with_retries.
AttemptsMade == IF pc \in {"loop", "done"} THEN Len(history) ELSE Len(history) + 1

\* C16: run_batch_with_retries makes at most self.retries run_batch attempts;
\* only the last attempt made can be one that returned, and it returned
\* exactly when no pair of it failed; when the helper has ended every pair
\* was invoked once per attempt made.
C16_BatchRetryWholeBatch ==
    call = "run_batch_with_retries" =>
        /\ AttemptsMade <= retries
        /\ \A i \in 1..NumPairs : calls[i] <= AttemptsMade
        /\ \A k \in 1..Len(history) :
             history[k] = "returned" => (k = Len(history) /\ Done /\ FailedSet = {})
        /\ \A k \in 1..Len(history) :
             (history[k] = "raised" /\ k = Len(history) /\ pc \in {"loop", "done"})
                 => FailedSet # {}
        /\ Done => \A i \in 1..NumPairs : calls[i] = Len(history)

\* The first attempt failed on pair 2 only, so pair 1 had succeeded in it;
\* the second attempt invoked both pairs again and returned.
C16_Witness ==
    /\ call = "run_batch_with_retries" /\ Done
    /\ history = <<"raised", "returned">>
    /\ NumPairs = 2
    /\ stdout[1].v = <<2, 1>>
    /\ calls = <<2, 2>>

\* What run_with_retries yields for a pair whose self.run calls ended as h:
\* the value of the call that succeeded, or the value the function falls
\* through with when none did.
ItemResult(h) ==
    IF h # <<>> /\ h[Len(h)].st = "ok" THEN h[Len(h)].val ELSE PyNone

\* C17: in run_batch_async_with_retries each pair is invoked at most
\* self.retries times, stopping at its own first success; the call never
\* raises and the awaited list has length N, position i holding pair i's
\* first successful result, or None when all self.retries attempts of pair i
\* failed -- a function of pair i's own outcomes alone.
C17_AsyncRetryPerItem ==
    call = "run_batch_async_with_retries" =>
        /\ ret.kind # "raise"
        /\ \A i \in 1..NumPairs :
             /\ calls[i] <= retries
             /\ \A k \in 1..(Len(history[i]) - 1) : history[i][k].st = "err"
        /\ Done =>
              /\ ret.kind = "return"
              /\ ret.val.ty = "list"
              /\ Len(ret.val.v) = NumPairs
              /\ \A i \in 1..NumPairs :
                   /\ calls[i] = Len(history[i])
                   /\ ret.val.v[i] = ItemResult(history[i])
                   /\ \/ history[i] # <<>> /\ history[i][Len(history[i])].st = "ok"
                      \/ Len(history[i]) = retries

\* Pair 1 used up its budget of two or more attempts and holds None; pair 2
\* succeeded at its first attempt and holds its response.
C17_Witness ==
    /\ call = "run_batch_async_with_retries" /\ Done
    /\ NumPairs = 2 /\ retries >= 2
    /\ calls[1] = retries /\ history[1][retries].st = "err"
    /\ ret.val.v[1] = PyNone
    /\ calls[2] = 1 /\ ret.val.v[2] = Response(Pairs[2])

====
